---------------------------- MODULE Spec2Model ----------------------------
(***************************************************************************)
(* Model of the copter_defs command codec (src/lib.rs): the MotorPosition  *)
(* and Command wire tags, the encoder to_vec (host and no_std variants),   *)
(* the decoder from_byte_array and the frame entry points to_slip and      *)
(* from_slip.                                                              *)
(*                                                                         *)
(* An f32 is represented by its IEEE-754 bit pattern: the code only ever   *)
(* moves floats through f32::to_bits and f32::from_bits, which reinterpret *)
(* the 32 bits.  A 32-bit pattern is the pair <<hi, lo>> of its two 16-bit *)
(* halves (TLC's integers are signed 32-bit), so 0xC0200000 is             *)
(* <<49184, 0>>.                                                           *)
(*                                                                         *)
(* Every error of the code is the unit value, Err(()).  The model keeps,   *)
(* beside the failure itself, the expression that produced it:             *)
(*   "NextNone"      iter.next() returned None and ok_or(()) made it Err   *)
(*                   (the input ran out: lib.rs 140, 155, 163)             *)
(*   "TryFromErr"    Command::try_from / MotorPosition::try_from fell to   *)
(*                   the `_ => Err(())` arm (lib.rs 59, 238)               *)
(*   "ArmedNotBool"  the armed byte was neither 0 nor 1 (lib.rs 169)       *)
(*   "PushFull"      heapless push failed, map_err(|_| ()) (lib.rs 83-96)  *)
(*   "FramingErr"    the framing collaborator returned Err (lib.rs 183,    *)
(*                   193, 211)                                             *)
(***************************************************************************)
EXTENDS Integers, Sequences, FiniteSets, TLC

VARIABLES
    pc,         \* position of the caller: "call", then "encoded", "tagged" or
                \* "framed" between the two calls of a round trip, "return"
                \* at the end, "failed" when the encoding call returned Err
    op,         \* the operation called
    cmd,        \* Command argument
    data,       \* byte-slice argument
    byte,       \* u8 argument of the tag conversions
    motor,      \* MotorPosition argument
    fr,         \* the framing collaborator's delimiter and escape bytes
    out,        \* caller-owned output buffer (heapless::Vec<u8, U32>)
    outBefore,  \* what `out` held when the last call was entered
    raw,        \* the Vec<u8> returned by the host to_vec
    frame,      \* the frame produced by to_slip, handed to from_slip
    ret,        \* the value returned by the last call
    calls,      \* calls made so far in a session
    errSeen     \* whether a call of the session has returned Err

vars ==
    <<pc, op, cmd, data, byte, motor, fr, out, outBefore, raw, frame, ret,
      calls, errSeen>>

-----------------------------------------------------------------------------
(* Bounds of the model *)

\* longest sequence of trailing bytes appended to a decodable buffer
MaxTrail == 2

\* calls made on one reused output buffer in a session
MaxCalls == 3

-----------------------------------------------------------------------------
(* Values *)

U8 == 0..255

\* a buffer one byte short of the longest encoding
CapacityTooSmall == 14 - 1

\* heapless::consts::U32, the capacity of every heapless::Vec of the crate
Capacity == 32

Ok(x) == [ok |-> TRUE, val |-> x]

Err(site) == [ok |-> FALSE, err |-> site]

\* enum MotorPosition
MotorPosition ==
    {"FrontLeft", "FrontRight", "BackLeft", "BackRight",
     "Left", "Right", "Front", "Back", "All"}

\* nalgebra::Vector3::<f32>::zeros(), as bit patterns
Zeros == << <<0, 0>>, <<0, 0>>, <<0, 0>> >>

\* enum Command: the four variants without payload ...
StartMotor == [tag |-> "StartMotor"]

StopMotor == [tag |-> "StopMotor"]

GetMotionState == [tag |-> "GetMotionState"]

ToggleLed == [tag |-> "ToggleLed"]

\* ... and SendMotionState(Vector3<f32>, bool)
SendMotionState(angle_vel, armed) ==
    [tag |-> "SendMotionState", angle_vel |-> angle_vel, armed |-> armed]

-----------------------------------------------------------------------------
(* MotorPosition <-> u8 *)

\* impl Into<u8> for MotorPosition
MotorInto(p) ==
    CASE p = "FrontLeft"  -> 1
      [] p = "FrontRight" -> 2
      [] p = "BackLeft"   -> 3
      [] p = "BackRight"  -> 4
      [] p = "Left"       -> 241
      [] p = "Right"      -> 242
      [] p = "Front"      -> 243
      [] p = "Back"       -> 244
      [] p = "All"        -> 255

\* a decoder that lost the group aliases' high nibble
MotorTryFromLowNibble(value) ==
    CASE value = 1   -> Ok("FrontLeft")
      [] value = 2   -> Ok("FrontRight")
      [] value = 3   -> Ok("BackLeft")
      [] value = 4   -> Ok("BackRight")
      [] value = 241 -> Ok("Left")
      [] value = 242 -> Ok("Right")
      [] value = 243 -> Ok("Front")
      [] value = 244 -> Ok("Back")
      [] value = 255 -> Ok("All")
      [] value = 15  -> Ok("All")
      [] OTHER       -> Err("TryFromErr")

\* impl TryFrom<u8> for MotorPosition
MotorTryFrom(value) ==
    CASE value = 1   -> Ok("FrontLeft")
      [] value = 2   -> Ok("FrontRight")
      [] value = 3   -> Ok("BackLeft")
      [] value = 4   -> Ok("BackRight")
      [] value = 241 -> Ok("Left")
      [] value = 242 -> Ok("Right")
      [] value = 243 -> Ok("Front")
      [] value = 244 -> Ok("Back")
      [] value = 255 -> Ok("All")
      [] OTHER       -> Err("TryFromErr")

-----------------------------------------------------------------------------
(* Command <-> u8 *)

\* impl Into<u8> for Command
CommandInto(c) ==
    CASE c.tag = "ToggleLed"       -> 1
      [] c.tag = "StartMotor"      -> 10
      [] c.tag = "StopMotor"       -> 11
      [] c.tag = "GetMotionState"  -> 20
      [] c.tag = "SendMotionState" -> 21

\* a tag table with the two motion-state arms exchanged
CommandTryFromSwapped(value) ==
    CASE value = 1  -> Ok(ToggleLed)
      [] value = 10 -> Ok(StartMotor)
      [] value = 11 -> Ok(StopMotor)
      [] value = 21 -> Ok(GetMotionState)
      [] value = 20 -> Ok(SendMotionState(Zeros, FALSE))
      [] OTHER      -> Err("TryFromErr")

\* impl TryFrom<u8> for Command
CommandTryFrom(value) ==
    CASE value = 1  -> Ok(ToggleLed)
      [] value = 10 -> Ok(StartMotor)
      [] value = 11 -> Ok(StopMotor)
      [] value = 20 -> Ok(GetMotionState)
      [] value = 21 -> Ok(SendMotionState(Zeros, FALSE))
      [] OTHER      -> Err("TryFromErr")

-----------------------------------------------------------------------------
(* u32 <-> 4 bytes *)

\* u32::to_le_bytes, least-significant byte first
to_le_bytes(x) ==
    << x[2] % 256, x[2] \div 256, x[1] % 256, x[1] \div 256 >>

\* u32::to_be_bytes, most-significant byte first
to_be_bytes(x) ==
    << x[1] \div 256, x[1] % 256, x[2] \div 256, x[2] % 256 >>

\* u32::from_be_bytes
from_be_bytes(b) ==
    << b[1] * 256 + b[2], b[3] * 256 + b[4] >>

-----------------------------------------------------------------------------
(* Encoder *)

\* an encoder that pushes the armed byte before the vector
PayloadBytesArmedFirst(c) ==
    IF c.tag = "SendMotionState"
    THEN << IF c.armed THEN 1 ELSE 0 >>
           \o to_be_bytes(c.angle_vel[1]) \o to_be_bytes(c.angle_vel[2])
           \o to_be_bytes(c.angle_vel[3])
    ELSE << >>

\* the bytes pushed after the tag, in push order
PayloadBytes(c) ==
    IF c.tag = "SendMotionState"
    THEN to_be_bytes(c.angle_vel[1]) \o to_be_bytes(c.angle_vel[2])
           \o to_be_bytes(c.angle_vel[3])
           \o << IF c.armed THEN 1 ELSE 0 >>
    ELSE << >>

\* Command::to_vec, host variant: a fresh Vec, the tag, the payload
to_vec(c) ==
    << CommandInto(c) >> \o PayloadBytes(c)

\* heapless::Vec::push: Err when the vector is full
Push(vec, b) ==
    IF Len(vec) < Capacity THEN Ok(vec \o << b >>) ELSE Err("PushFull")

\* the pushes of to_vec (no_std) in order, stopping at the first Err (`?`);
\* the buffer keeps what was pushed before the failure
RECURSIVE PushAll(_, _)
PushAll(vec, bytes) ==
    IF bytes = << >> THEN [ok |-> TRUE, out |-> vec]
    ELSE LET r == Push(vec, Head(bytes))
         IN  IF r.ok THEN PushAll(r.val, Tail(bytes))
             ELSE [ok |-> FALSE, out |-> vec]

\* an encoder that forgets out.clear()
to_vec_nostd_noclear(c, buf) ==
    PushAll(buf, << CommandInto(c) >> \o PayloadBytes(c))

\* Command::to_vec, no_std variant: clear the caller's buffer, push the tag,
\* push the payload.  The result is whether it returned Ok(()) and what the
\* buffer holds afterwards.
to_vec_nostd(c, buf) ==
    PushAll(<< >>, << CommandInto(c) >> \o PayloadBytes(c))

-----------------------------------------------------------------------------
(* Decoder *)

\* an iterator that hands out a zero byte once the slice is exhausted
IterNextPastEnd(d, pos) ==
    IF pos < Len(d) THEN [some |-> TRUE, val |-> d[pos + 1], pos |-> pos + 1]
    ELSE [some |-> TRUE, val |-> 0, pos |-> pos + 1]

\* core::slice::Iter::next on data.iter(): pos bytes were handed out so far
IterNext(d, pos) ==
    IF pos < Len(d) THEN [some |-> TRUE, val |-> d[pos + 1], pos |-> pos + 1]
    ELSE [some |-> FALSE, val |-> 0, pos |-> pos]

\* buffer.iter_mut().try_for_each(|byte| *byte = *iter.next().ok_or(())?):
\* fills buffer[i..4] from the iterator, stopping at the first None
RECURSIVE FillBuffer(_, _, _, _)
FillBuffer(d, pos, buffer, i) ==
    IF i > 4 THEN [ok |-> TRUE, buffer |-> buffer, pos |-> pos]
    ELSE LET n == IterNext(d, pos)
         IN  IF n.some
             THEN FillBuffer(d, n.pos, [buffer EXCEPT ![i] = n.val], i + 1)
             ELSE [ok |-> FALSE, buffer |-> buffer, pos |-> n.pos]

\* for el in angle_vel.iter_mut(): fill the 4-byte buffer, then
\* *el = f32::from_bits(u32::from_be_bytes(buffer)); components el..3
RECURSIVE ReadVector(_, _, _, _, _)
ReadVector(d, pos, buffer, angle_vel, el) ==
    IF el > 3 THEN [ok |-> TRUE, angle_vel |-> angle_vel, pos |-> pos]
    ELSE LET f == FillBuffer(d, pos, buffer, 1)
         IN  IF f.ok
             THEN ReadVector(d, f.pos, f.buffer,
                             [angle_vel EXCEPT ![el] = from_be_bytes(f.buffer)],
                             el + 1)
             ELSE [ok |-> FALSE, angle_vel |-> angle_vel, pos |-> f.pos]

\* a decoder that takes every nonzero armed byte for true
ArmedFromByteNonZero(val) ==
    IF val = 0 THEN Ok(FALSE) ELSE Ok(TRUE)

\* the closure applied to the armed byte (lib.rs 163-171)
ArmedFromByte(val) ==
    IF val = 0 THEN Ok(FALSE)
    ELSE IF val = 1 THEN Ok(TRUE)
    ELSE Err("ArmedNotBool")

\* The decoder with the number of bytes its iterator handed out:
\* [res |-> Result<Command, ()>, read |-> bytes consumed].
Decode(d) ==
    LET first == IterNext(d, 0)
    IN  IF ~first.some THEN [res |-> Err("NextNone"), read |-> first.pos]
        ELSE LET shape == CommandTryFrom(first.val)
             IN  IF ~shape.ok THEN [res |-> shape, read |-> first.pos]
                 ELSE IF shape.val.tag # "SendMotionState"
                 THEN [res |-> Ok(shape.val), read |-> first.pos]
                 ELSE LET v == ReadVector(d, first.pos, <<0, 0, 0, 0>>, Zeros, 1)
                      IN  IF ~v.ok THEN [res |-> Err("NextNone"), read |-> v.pos]
                          ELSE LET a == IterNext(d, v.pos)
                               IN  IF ~a.some
                                   THEN [res |-> Err("NextNone"), read |-> a.pos]
                                   ELSE LET armed == ArmedFromByte(a.val)
                                        IN  IF ~armed.ok
                                            THEN [res |-> armed, read |-> a.pos]
                                            ELSE [res |-> Ok(SendMotionState(
                                                             v.angle_vel, armed.val)),
                                                  read |-> a.pos]

\* a decoder that rejects input it did not consume entirely
from_byte_array_strict(d) ==
    LET r == Decode(d)
    IN  IF r.res.ok /\ r.read < Len(d) THEN Err("NextNone") ELSE r.res

\* Command::from_byte_array
from_byte_array(d) ==
    Decode(d).res

-----------------------------------------------------------------------------
(* The framing collaborator (crate rc_framing, not part of this repository): *)
(* a SLIP byte-stuffing transform, parameterised by its delimiter byte      *)
(* f.end, its escape byte f.esc and the two escaped codes f.esc_end and     *)
(* f.esc_esc.                                                               *)

\* one raw byte as it appears inside a frame
Stuffed(f, b) ==
    IF b = f.end THEN << f.esc, f.esc_end >>
    ELSE IF b = f.esc THEN << f.esc, f.esc_esc >>
    ELSE << b >>

RECURSIVE Stuff(_, _)
Stuff(f, bytes) ==
    IF bytes = << >> THEN << >>
    ELSE Stuffed(f, Head(bytes)) \o Stuff(f, Tail(bytes))

\* rc_framing::framing::encode, host variant: the stuffed bytes, then the
\* delimiter
framing_encode(f, bytes) ==
    Stuff(f, bytes) \o << f.end >>

\* rc_framing::framing::encode, no_std variant: fails when the frame does
\* not fit the 32-byte output
framing_encode_nostd(f, bytes) ==
    LET e == framing_encode(f, bytes)
    IN  IF Len(e) <= Capacity THEN Ok(e) ELSE Err("FramingErr")

RECURSIVE Unstuff(_, _, _)
Unstuff(f, framed, acc) ==
    IF framed = << >> THEN Err("FramingErr")
    ELSE IF Head(framed) = f.esc
    THEN IF Len(framed) < 2 THEN Err("FramingErr")
         ELSE IF framed[2] = f.esc_end
         THEN Unstuff(f, Tail(Tail(framed)), Append(acc, f.end))
         ELSE IF framed[2] = f.esc_esc
         THEN Unstuff(f, Tail(Tail(framed)), Append(acc, f.esc))
         ELSE Err("FramingErr")
    ELSE IF Head(framed) = f.end THEN Ok(acc)
    ELSE Unstuff(f, Tail(framed), Append(acc, Head(framed)))

\* rc_framing::framing::decode, host variant: the bytes up to the delimiter,
\* unescaped; Err on a malformed escape or a missing delimiter
framing_decode(f, framed) ==
    Unstuff(f, framed, << >>)

\* rc_framing::framing::decode, no_std variant
framing_decode_nostd(f, framed) ==
    LET d == framing_decode(f, framed)
    IN  IF d.ok /\ Len(d.val) > Capacity THEN Err("FramingErr") ELSE d

-----------------------------------------------------------------------------
(* Frame boundary *)

\* a to_slip that hands the raw bytes on without framing them
to_slip_unframed(f, c) ==
    to_vec(c)

\* Command::to_slip, host variant
to_slip(f, c) ==
    LET bytes == to_vec(c)
    IN  framing_encode(f, bytes)

\* Command::to_slip, no_std variant: [res |-> Result<usize, ()>,
\* output |-> what the caller's output vector holds afterwards]
to_slip_nostd(f, c, output) ==
    LET bytes == to_vec_nostd(c, << >>)
    IN  IF ~bytes.ok THEN [res |-> Err("PushFull"), output |-> output]
        ELSE LET e == framing_encode_nostd(f, bytes.out)
             IN  IF ~e.ok THEN [res |-> e, output |-> output]
                 ELSE [res |-> Ok(Len(e.val)), output |-> e.val]

\* Command::from_slip, host variant
from_slip(f, input) ==
    LET decoded_bytes == framing_decode(f, input)
    IN  IF ~decoded_bytes.ok THEN decoded_bytes
        ELSE from_byte_array(decoded_bytes.val)

\* Command::from_slip, no_std variant
from_slip_nostd(f, input) ==
    LET decoded_bytes == framing_decode_nostd(f, input)
    IN  IF ~decoded_bytes.ok THEN decoded_bytes
        ELSE from_byte_array(decoded_bytes.val)

-----------------------------------------------------------------------------
(* Inputs *)

\* f32 bit patterns: 0.0, 1.0 (0x3F800000), -2.5 (0xC0200000), a signalling
\* NaN with a payload (0x7FA00001, four different bytes) and -Inf (0xFF800000)
Patterns ==
    {<<0, 0>>, <<16256, 0>>, <<49184, 0>>, <<32672, 1>>, <<65408, 0>>}

Vectors == {<<a, b, c>> : a \in Patterns, b \in Patterns, c \in Patterns}

Commands ==
    {StartMotor, StopMotor, GetMotionState, ToggleLed}
      \cup {SendMotionState(v, a) : v \in Vectors, a \in BOOLEAN}

\* the raw encodings of the commands
Encodings == {to_vec(c) : c \in Commands}

Prefixes(s) == {SubSeq(s, 1, n) : n \in 0..Len(s)}

\* p is a prefix of s and shorter than s
IsStrictPrefix(p, s) ==
    /\ Len(p) < Len(s)
    /\ \A i \in 1..Len(p) : p[i] = s[i]

\* trailing bytes: the two legal armed bytes, a command tag and 0xFF
TrailBytes == {0, 1, 21, 255}

Trails == UNION {[1..n -> TrailBytes] : n \in 0..MaxTrail}

\* the 12 bytes of a vector on the wire
VectorBytes(v) == to_be_bytes(v[1]) \o to_be_bytes(v[2]) \o to_be_bytes(v[3])

\* byte slices handed to the decoder: every prefix of every encoding, every
\* encoding followed by trailing bytes, a SendMotionState tag and vector
\* followed by every possible armed byte, and every possible first byte
\* followed by trailing bytes
DataInput(d) ==
    \/ \E e \in Encodings : d \in Prefixes(e)
    \/ \E c \in Commands, t \in Trails : d = to_vec(c) \o t
    \/ \E v \in Vectors, b \in U8 : d = <<21>> \o VectorBytes(v) \o <<b>>
    \/ \E b \in U8, t \in Trails : d = <<b>> \o t

\* what a caller-owned buffer may hold when it is passed in: nothing, an
\* earlier short encoding, or 32 bytes
DirtyBuffers == {<< >>, <<21, 0>>, [i \in 1..Capacity |-> 170]}

\* delimiter and escape bytes of the framing collaborator: the SLIP values
\* (0xC0, 0xDB, 0xDC, 0xDD) and values that collide with command tags,
\* armed bytes and float bytes
Framings ==
    {[end |-> e, esc |-> s, esc_end |-> x, esc_esc |-> y] :
        e \in {192, 21, 0}, s \in {219, 1}, x \in {220, 0}, y \in {221, 21}}

SlipFraming == [end |-> 192, esc |-> 219, esc_end |-> 220, esc_esc |-> 221]

-----------------------------------------------------------------------------
(* One call of the library, from its arguments to its return value *)

Idle ==
    /\ cmd = ToggleLed
    /\ data = << >>
    /\ byte = 0
    /\ motor = "All"
    /\ fr = SlipFraming
    /\ out = << >>
    /\ outBefore = << >>
    /\ raw = << >>
    /\ frame = << >>
    /\ ret = Err("none")
    /\ calls = 0
    /\ errSeen = FALSE

Init ==
    /\ pc = "call"
    /\ \/ /\ op = "to_vec"
          /\ cmd \in Commands
          /\ data = << >> /\ byte = 0 /\ motor = "All" /\ fr = SlipFraming
          /\ out = << >> /\ outBefore = << >> /\ raw = << >> /\ frame = << >>
       \/ /\ op = "to_vec_nostd"
          /\ cmd \in Commands
          /\ out \in DirtyBuffers
          /\ outBefore = out
          /\ data = << >> /\ byte = 0 /\ motor = "All" /\ fr = SlipFraming
          /\ raw = << >> /\ frame = << >>
       \/ /\ op = "from_byte_array"
          /\ DataInput(data)
          /\ cmd = ToggleLed /\ byte = 0 /\ motor = "All" /\ fr = SlipFraming
          /\ out = << >> /\ outBefore = << >> /\ raw = << >> /\ frame = << >>
       \/ /\ op \in {"to_slip", "to_slip_nostd"}
          /\ cmd \in Commands
          /\ fr \in Framings
          /\ data = << >> /\ byte = 0 /\ motor = "All"
          /\ out = << >> /\ outBefore = << >> /\ raw = << >> /\ frame = << >>
       \/ /\ op \in {"command_try_from", "motor_try_from"}
          /\ byte \in U8
          /\ cmd = ToggleLed /\ data = << >> /\ motor = "All" /\ fr = SlipFraming
          /\ out = << >> /\ outBefore = << >> /\ raw = << >> /\ frame = << >>
       \/ /\ op = "motor_into"
          /\ motor \in MotorPosition
          /\ cmd = ToggleLed /\ data = << >> /\ byte = 0 /\ fr = SlipFraming
          /\ out = << >> /\ outBefore = << >> /\ raw = << >> /\ frame = << >>
    /\ ret = Err("none")
    /\ calls = 0
    /\ errSeen = FALSE

\* let bytes = cmd.to_vec(); the caller then hands &bytes to the decoder
ToVec ==
    /\ pc = "call" /\ op = "to_vec"
    /\ raw' = to_vec(cmd)
    /\ data' = to_vec(cmd)
    /\ pc' = "encoded"
    /\ UNCHANGED <<op, cmd, byte, motor, fr, out, outBefore, frame, ret,
                   calls, errSeen>>

\* cmd.to_vec(&mut out); the caller then hands &out to the decoder
ToVecNoStd ==
    /\ pc = "call" /\ op = "to_vec_nostd"
    /\ LET r == to_vec_nostd(cmd, out)
       IN  /\ out' = r.out
           /\ data' = r.out
           /\ ret' = IF r.ok THEN Ok("unit") ELSE Err("PushFull")
           /\ pc' = IF r.ok THEN "encoded" ELSE "failed"
    /\ UNCHANGED <<op, cmd, byte, motor, fr, outBefore, raw, frame, calls,
                   errSeen>>

\* Command::from_byte_array(&data)
FromByteArray ==
    /\ \/ pc = "call" /\ op = "from_byte_array"
       \/ pc = "encoded"
    /\ ret' = from_byte_array(data)
    /\ pc' = "return"
    /\ UNCHANGED <<op, cmd, data, byte, motor, fr, out, outBefore, raw, frame,
                   calls, errSeen>>

\* let frame = cmd.to_slip()
ToSlip ==
    /\ pc = "call" /\ op = "to_slip"
    /\ frame' = to_slip(fr, cmd)
    /\ pc' = "framed"
    /\ UNCHANGED <<op, cmd, data, byte, motor, fr, out, outBefore, raw, ret,
                   calls, errSeen>>

\* cmd.to_slip(&mut frame)
ToSlipNoStd ==
    /\ pc = "call" /\ op = "to_slip_nostd"
    /\ LET r == to_slip_nostd(fr, cmd, frame)
       IN  /\ frame' = r.output
           /\ ret' = r.res
           /\ pc' = IF r.res.ok THEN "framed" ELSE "failed"
    /\ UNCHANGED <<op, cmd, data, byte, motor, fr, out, outBefore, raw, calls,
                   errSeen>>

\* Command::from_slip(&frame), host variant
FromSlip ==
    /\ pc = "framed" /\ op = "to_slip"
    /\ ret' = from_slip(fr, frame)
    /\ pc' = "return"
    /\ UNCHANGED <<op, cmd, data, byte, motor, fr, out, outBefore, raw, frame,
                   calls, errSeen>>

\* Command::from_slip(&frame), no_std variant
FromSlipNoStd ==
    /\ pc = "framed" /\ op = "to_slip_nostd"
    /\ ret' = from_slip_nostd(fr, frame)
    /\ pc' = "return"
    /\ UNCHANGED <<op, cmd, data, byte, motor, fr, out, outBefore, raw, frame,
                   calls, errSeen>>

\* Command::try_from(byte)
CommandTryFromCall ==
    /\ pc = "call" /\ op = "command_try_from"
    /\ ret' = CommandTryFrom(byte)
    /\ pc' = "return"
    /\ UNCHANGED <<op, cmd, data, byte, motor, fr, out, outBefore, raw, frame,
                   calls, errSeen>>

\* let byte: u8 = motor.into(); the caller then converts the byte back
MotorIntoCall ==
    /\ pc = "call" /\ op = "motor_into"
    /\ byte' = MotorInto(motor)
    /\ pc' = "tagged"
    /\ UNCHANGED <<op, cmd, data, motor, fr, out, outBefore, raw, frame, ret,
                   calls, errSeen>>

\* MotorPosition::try_from(byte)
MotorTryFromCall ==
    /\ \/ pc = "call" /\ op = "motor_try_from"
       \/ pc = "tagged"
    /\ ret' = MotorTryFrom(byte)
    /\ pc' = "return"
    /\ UNCHANGED <<op, cmd, data, byte, motor, fr, out, outBefore, raw, frame,
                   calls, errSeen>>

Next ==
    \/ ToVec
    \/ ToVecNoStd
    \/ FromByteArray
    \/ ToSlip
    \/ ToSlipNoStd
    \/ FromSlip
    \/ FromSlipNoStd
    \/ CommandTryFromCall
    \/ MotorIntoCall
    \/ MotorTryFromCall

Spec == Init /\ [][Next]_vars

-----------------------------------------------------------------------------
(* Properties of one call *)

\* the command tags as the wire format lists them
WireTag(c) ==
    CASE c.tag = "ToggleLed"       -> 1
      [] c.tag = "StartMotor"      -> 10
      [] c.tag = "StopMotor"       -> 11
      [] c.tag = "GetMotionState"  -> 20
      [] c.tag = "SendMotionState" -> 21

\* C1: decoding the raw encoding of a command (from either variant of
\* to_vec) succeeds and returns that command, the three vector components
\* bit for bit.
RawRoundTrip ==
    /\ (op \in {"to_vec", "to_vec_nostd"} /\ pc = "return") => ret = Ok(cmd)
    /\ op \in {"to_vec", "to_vec_nostd"} => pc # "failed"

RawRoundTripWitness ==
    /\ op = "to_vec" /\ pc = "return"
    /\ cmd = SendMotionState(<< <<32672, 1>>, <<65408, 0>>, <<49184, 0>> >>, TRUE)
    /\ Len(raw) = 14
    /\ ret = Ok(cmd)

\* C2: framing a command and unframing it again returns the command, for
\* every choice of delimiter and escape bytes; on the no_std variant,
\* whenever to_slip succeeded.
FrameRoundTrip ==
    (op \in {"to_slip", "to_slip_nostd"} /\ pc = "return") => ret = Ok(cmd)

FrameRoundTripWitness ==
    /\ op = "to_slip_nostd" /\ pc = "return"
    /\ fr.end = 21 /\ fr.esc = 1
    /\ cmd.tag = "SendMotionState" /\ cmd.armed
    /\ Len(frame) > 17
    /\ ret = Ok(cmd)

\* C3: the first byte of an encoding is the command tag; a command without
\* payload encodes to that byte alone; SendMotionState encodes to the tag,
\* each component's 32 bits most-significant byte first, and 1 or 0 for
\* armed.
WireLayoutOf(c, bytes) ==
    /\ Len(bytes) >= 1
    /\ bytes[1] = WireTag(c)
    /\ c.tag # "SendMotionState" => Len(bytes) = 1
    /\ c.tag = "SendMotionState" =>
         /\ Len(bytes) = 14
         /\ \A i \in 1..3 :
              /\ bytes[4 * i - 2] * 256 + bytes[4 * i - 1] = c.angle_vel[i][1]
              /\ bytes[4 * i] * 256 + bytes[4 * i + 1] = c.angle_vel[i][2]
         /\ bytes[14] = (IF c.armed THEN 1 ELSE 0)
    /\ c = SendMotionState(<< <<16256, 0>>, <<0, 0>>, <<49184, 0>> >>, TRUE) =>
         bytes = <<21, 63, 128, 0, 0, 0, 0, 0, 0, 192, 32, 0, 0, 1>>

WireLayout ==
    /\ (op = "to_vec" /\ pc = "encoded") => WireLayoutOf(cmd, raw)
    /\ (op = "to_vec_nostd" /\ pc = "encoded") => WireLayoutOf(cmd, out)

WireLayoutWitness ==
    /\ op = "to_vec" /\ pc = "encoded"
    /\ cmd = SendMotionState(<< <<16256, 0>>, <<0, 0>>, <<49184, 0>> >>, TRUE)
    /\ raw = <<21, 63, 128, 0, 0, 0, 0, 0, 0, 192, 32, 0, 0, 1>>

\* C4: Command::try_from succeeds exactly on the bytes 1, 10, 11, 20, 21,
\* returns the variant whose tag is the byte, with a zero vector and
\* armed = false for SendMotionState, and fails on every other byte.
CommandTagExhaustive ==
    (op = "command_try_from" /\ pc = "return") =>
        /\ ret.ok <=> byte \in {1, 10, 11, 20, 21}
        /\ ret.ok =>
             /\ WireTag(ret.val) = byte
             /\ CommandInto(ret.val) = byte
             /\ ret.val \in {ToggleLed, StartMotor, StopMotor, GetMotionState,
                             SendMotionState(Zeros, FALSE)}
        /\ ~ret.ok => ret = Err("TryFromErr")

CommandTagWitness ==
    /\ op = "command_try_from" /\ pc = "return"
    /\ byte = 21
    /\ ret = Ok(SendMotionState(Zeros, FALSE))

\* C5: MotorPosition::try_from succeeds exactly on the nine tags and then
\* converts back to the same byte; each of the nine variants converts to a
\* byte that converts back to it; the nine tags are pairwise distinct.
MotorTagExhaustive ==
    /\ (op = "motor_try_from" /\ pc = "return") =>
          /\ ret.ok <=> byte \in {1, 2, 3, 4, 241, 242, 243, 244, 255}
          /\ ret.ok => MotorInto(ret.val) = byte
          /\ ~ret.ok => ret = Err("TryFromErr")
    /\ (op = "motor_into" /\ pc = "return") =>
          /\ ret = Ok(motor)
          /\ \A q \in MotorPosition : q # motor => MotorInto(q) # byte

MotorTagWitness ==
    /\ op = "motor_into" /\ pc = "return"
    /\ motor = "Left" /\ byte = 241
    /\ ret = Ok("Left")

\* C6: decoding the empty slice, or a strict prefix of a command's
\* encoding, fails because the input ran out; the full encoding decodes;
\* the decoder never consumes more bytes than the slice holds and a failed
\* decode carries no Command.
Truncation ==
    (op = "from_byte_array" /\ pc = "return") =>
        /\ data = << >> => ret = Err("NextNone")
        /\ \A e \in Encodings : IsStrictPrefix(data, e) => ret = Err("NextNone")
        /\ data \in Encodings => ret.ok
        /\ Decode(data).read <= Len(data)
        /\ ~ret.ok => DOMAIN ret = {"ok", "err"}

TruncationWitness ==
    /\ op = "from_byte_array" /\ pc = "return"
    /\ Len(data) = 13 /\ data[1] = 21 /\ data[2] = 127
    /\ ret = Err("NextNone")

\* C7: after the tag 21 and 12 vector bytes, an armed byte of 0 decodes to
\* armed = false, 1 to armed = true, and every other value fails the decode
\* at the armed byte.
ArmedByteValidation ==
    (op = "from_byte_array" /\ pc = "return" /\ Len(data) >= 14 /\ data[1] = 21) =>
        /\ data[14] = 0 => (ret.ok /\ ret.val.armed = FALSE)
        /\ data[14] = 1 => (ret.ok /\ ret.val.armed = TRUE)
        /\ data[14] \in 2..255 => ret = Err("ArmedNotBool")
        /\ ret.ok => \A i \in 1..3 :
                       to_be_bytes(ret.val.angle_vel[i])
                         = SubSeq(data, 4 * i - 2, 4 * i + 1)

ArmedByteWitness ==
    /\ op = "from_byte_array" /\ pc = "return"
    /\ Len(data) = 14 /\ data[1] = 21 /\ data[2] = 255 /\ data[14] = 2
    /\ ret = Err("ArmedNotBool")

\* C8 as stated: no encoding exceeds 13 bytes including the tag, and the
\* no_std to_vec never fails.
EncodedSizeAtMost13 ==
    /\ (op \in {"to_vec", "to_vec_nostd"} /\ pc = "encoded") => Len(data) <= 13
    /\ op = "to_vec_nostd" => pc # "failed"

\* C8 (amended): no encoding exceeds 14 bytes including the tag (the tag, 12
\* vector bytes and the armed byte), so the no_std to_vec never fails on its
\* 32-byte buffer, whatever the buffer held before.
EncodedSizeAtMost14 ==
    /\ (op = "to_vec" /\ pc = "encoded") => Len(raw) <= 14
    /\ (op = "to_vec_nostd" /\ pc = "encoded") => (Len(out) <= 14 /\ ret.ok)
    /\ op = "to_vec_nostd" => pc # "failed"

EncodedSizeWitness ==
    /\ op = "to_vec_nostd" /\ pc = "encoded"
    /\ Len(outBefore) = 32
    /\ Len(out) = 14
    /\ ret.ok

-----------------------------------------------------------------------------
(* A session: one caller-owned buffer reused by successive calls *)

SessionCommands ==
    {StartMotor, StopMotor, GetMotionState, ToggleLed}
      \cup {SendMotionState(<<a, <<0, 0>>, <<49184, 0>> >>, b) :
              a \in {<<0, 0>>, <<16256, 0>>}, b \in BOOLEAN}

\* slices the session decodes: encodings, an encoding with a trailing byte,
\* and slices that fail (empty, an unknown tag, a truncated vector, an armed
\* byte of 2)
SessionData ==
    {to_vec(c) : c \in SessionCommands}
      \cup {<< >>, <<0>>, <<1, 255>>, <<21, 63, 128>>,
            <<21, 63, 128, 0, 0, 0, 0, 0, 0, 192, 32, 0, 0, 2>>}

SessionInit ==
    /\ pc = "idle"
    /\ op = "none"
    /\ Idle

\* cmd.to_vec(&mut out) on the buffer as the earlier calls left it
SessionToVec ==
    /\ calls < MaxCalls
    /\ \E c \in SessionCommands :
         LET r == to_vec_nostd(c, out)
         IN  /\ op' = "to_vec_nostd"
             /\ cmd' = c
             /\ outBefore' = out
             /\ out' = r.out
             /\ ret' = IF r.ok THEN Ok("unit") ELSE Err("PushFull")
             /\ errSeen' = (errSeen \/ ~r.ok)
    /\ calls' = calls + 1
    /\ UNCHANGED <<pc, data, byte, motor, fr, raw, frame>>

\* Command::from_byte_array(&d) between two encodes
SessionFromByteArray ==
    /\ calls < MaxCalls
    /\ \E d \in SessionData \cup {out} :
         /\ op' = "from_byte_array"
         /\ data' = d
         /\ ret' = from_byte_array(d)
         /\ errSeen' = (errSeen \/ ~from_byte_array(d).ok)
    /\ outBefore' = out
    /\ calls' = calls + 1
    /\ UNCHANGED <<pc, cmd, byte, motor, fr, out, raw, frame>>

SessionNext ==
    \/ SessionToVec
    \/ SessionFromByteArray

SessionSpec == SessionInit /\ [][SessionNext]_vars

\* s starts with p
StartsWith(s, p) ==
    /\ Len(p) <= Len(s)
    /\ \A i \in 1..Len(p) : s[i] = p[i]

\* C10: whatever calls came before and whatever the buffer held, to_vec
\* leaves in the buffer exactly the encoding of its argument, and
\* from_byte_array returns what its argument alone determines (the command
\* whose encoding the slice starts with, an error when there is none) and
\* leaves the buffer alone.
NoCrossCallState ==
    /\ op = "to_vec_nostd" => (ret.ok /\ out = to_vec(cmd))
    /\ op = "from_byte_array" =>
          /\ out = outBefore
          /\ \A c \in SessionCommands :
                StartsWith(data, to_vec(c)) => ret = Ok(c)
          /\ (\A c \in SessionCommands : ~StartsWith(data, to_vec(c))) => ~ret.ok

NoCrossCallStateWitness ==
    /\ op = "to_vec_nostd"
    /\ calls = MaxCalls
    /\ errSeen
    /\ Len(outBefore) = 14
    /\ cmd = ToggleLed
    /\ out = <<1>>

=============================================================================
